---- MODULE Spec2Model ----
(***************************************************************************)
(* BeesHashTable (src/bees-hash.cc): a fixed-size table of (hash, addr)    *)
(* cells grouped in buckets and extents, paged in lazily from a backing    *)
(* file, mutated by scanner threads under m_bucket_mutex, and written      *)
(* back extent by extent by the writeback thread.                          *)
(***************************************************************************)
EXTENDS Integers, Sequences, FiniteSets, TLC

\* ------------------------------------------------------------------------
\* Geometry (scaled down) and value domains
\* ------------------------------------------------------------------------

\* cells per bucket (BLOCK_SIZE_HASHTAB_BUCKET / sizeof(Cell) in the build)
c_cells_per_bucket == 3

\* buckets per extent (BLOCK_SIZE_HASHTAB_EXTENT / BLOCK_SIZE_HASHTAB_BUCKET)
c_buckets_per_extent == 2

\* number of extents of the table (m_size / BLOCK_SIZE_HASHTAB_EXTENT)
m_extents == 2

m_buckets == m_extents * c_buckets_per_extent

Extents == 0 .. (m_extents - 1)

Buckets == 0 .. (m_buckets - 1)

CellIdx == 0 .. (c_cells_per_bucket - 1)

\* the smallest address that is not a reserved sentinel (0x1000)
ADDR_MIN == 4096

\* a reserved, non-zero address below 0x1000
ADDR_MAGIC == ADDR_MIN \div 2

\* a second valid address (0x2000)
ADDR_TWO == 2 * ADDR_MIN

\* the toxic flag bit of BeesAddress
c_toxic_mask == 512

set_toxic(a) == a + c_toxic_mask

\* the address of the synthetic cell find_cell returns for a toxic hash
TOXIC_ADDR == set_toxic(ADDR_MIN)

Cell(h, a) == [e_hash |-> h, e_addr |-> a]

EmptyCell == Cell(0, 0)

\* two fingerprints of bucket 1, one toxic fingerprint of bucket 1, and one
\* fingerprint of the last bucket (in the last extent)
HASH_A == m_buckets + 1

HASH_B == 2 * m_buckets + 1

HASH_TOXIC == 3 * m_buckets + 1

HASH_LAST == m_buckets - 1

m_toxic_hashes == {HASH_TOXIC}

EmptyBucket == [i \in CellIdx |-> EmptyCell]

\* ------------------------------------------------------------------------
\* Addressing
\* ------------------------------------------------------------------------

\* get_cell_range: the bucket a hash selects
BucketOf(hash) == hash % m_buckets

\* get_extent_range: the extent a hash selects
get_extent_range(hash) == (hash % m_buckets) \div c_buckets_per_extent

\* the buckets of extent e
ExtentBuckets(e) == (e * c_buckets_per_extent) .. ((e + 1) * c_buckets_per_extent - 1)

\* ------------------------------------------------------------------------
\* The bucket algorithms, as the code computes them
\* ------------------------------------------------------------------------

\* std::find(first, last, value): the first index holding value, else end
StdFind(b, v) ==
    IF \E i \in CellIdx : b[i] = v
    THEN CHOOSE i \in CellIdx : b[i] = v /\ \A j \in CellIdx : j < i => b[j] # v
    ELSE c_cells_per_bucket

\* while (dp > lo) { *dp-- = *sp--; }
RECURSIVE ShiftLoop(_, _, _, _)
ShiftLoop(b, dp, sp, lo) ==
    IF dp > lo
    THEN ShiftLoop([b EXCEPT ![dp] = b[sp]], dp - 1, sp - 1, lo)
    ELSE b

\* std::move_backward(first, last, d_last)
RECURSIVE MoveBackward(_, _, _, _)
MoveBackward(b, first, last, d_last) ==
    IF first # last
    THEN MoveBackward([b EXCEPT ![d_last - 1] = b[last - 1]], first, last - 1, d_last - 1)
    ELSE b

\* faulty variant of is_toxic_hash: no hash is toxic
is_toxic_hash_Never(hash) == hash \in {}

\* is_toxic_hash, line 348
is_toxic_hash(hash) == hash \in m_toxic_hashes

\* faulty variant of the copy_if predicate: no test of the address
FindMatches_NoAddrTest(ip, hash) == ip.e_hash = hash

\* the copy_if predicate of find_cell
FindMatches(ip, hash) == ip.e_hash = hash /\ ip.e_addr >= ADDR_MIN

\* copy_if(er.first, er.second, back_inserter(rv), pred)
RECURSIVE CopyIf(_, _, _)
CopyIf(b, i, hash) ==
    IF i >= c_cells_per_bucket THEN << >>
    ELSE IF FindMatches(b[i], hash)
         THEN << b[i] >> \o CopyIf(b, i + 1, hash)
         ELSE CopyIf(b, i + 1, hash)

\* faulty variant of erase_hash_addr: the cell found is not overwritten
erase_cells_NoWrite(b, hash, addr) ==
    LET mv == Cell(hash, addr)
        ip == StdFind(b, mv)
        found == ip < c_cells_per_bucket
    IN  [cells |-> b, dirty |-> found, found |-> found]

\* faulty variant of erase_hash_addr: the extent is not marked dirty
erase_cells_NoDirty(b, hash, addr) ==
    LET mv == Cell(hash, addr)
        ip == StdFind(b, mv)
        found == ip < c_cells_per_bucket
    IN  IF found
        THEN [cells |-> [b EXCEPT ![ip] = EmptyCell], dirty |-> FALSE, found |-> TRUE]
        ELSE [cells |-> b, dirty |-> FALSE, found |-> FALSE]

\* erase_hash_addr on the cells of the bucket: the cells after, and whether
\* set_extent_dirty is called
erase_cells(b, hash, addr) ==
    LET mv == Cell(hash, addr)
        ip == StdFind(b, mv)
        found == ip < c_cells_per_bucket
    IN  IF found
        THEN [cells |-> [b EXCEPT ![ip] = EmptyCell], dirty |-> TRUE, found |-> TRUE]
        ELSE [cells |-> b, dirty |-> FALSE, found |-> FALSE]

\* faulty variant of push_front_hash_addr: the source is the last cell even
\* when an empty cell exists
push_front_cells_NoEmptySearch(b, hash, addr) ==
    LET mv == Cell(hash, addr)
        ip0 == StdFind(b, mv)
        found == ip0 < c_cells_per_bucket
        ip == IF found THEN ip0 ELSE c_cells_per_bucket
        atEnd == ip = c_cells_per_bucket
        sp == IF atEnd THEN ip - 2 ELSE ip - 1
        dp == IF atEnd THEN ip - 1 ELSE ip
        b1 == IF ip > 0 THEN ShiftLoop(b, dp, sp, 0) ELSE b
    IN  IF b1[0] # mv
        THEN [cells |-> [b1 EXCEPT ![0] = mv], dirty |-> TRUE, found |-> found]
        ELSE [cells |-> b1, dirty |-> FALSE, found |-> found]

\* faulty variant of push_front_hash_addr: the source is the first empty cell
\* even when the cell is already in the bucket
push_front_cells_NoMatchSearch(b, hash, addr) ==
    LET mv == Cell(hash, addr)
        ip0 == StdFind(b, mv)
        found == ip0 < c_cells_per_bucket
        ip == StdFind(b, EmptyCell)
        atEnd == ip = c_cells_per_bucket
        sp == IF atEnd THEN ip - 2 ELSE ip - 1
        dp == IF atEnd THEN ip - 1 ELSE ip
        b1 == IF ip > 0 THEN ShiftLoop(b, dp, sp, 0) ELSE b
    IN  IF b1[0] # mv
        THEN [cells |-> [b1 EXCEPT ![0] = mv], dirty |-> TRUE, found |-> found]
        ELSE [cells |-> b1, dirty |-> FALSE, found |-> found]

\* push_front_hash_addr on the cells of the bucket
push_front_cells(b, hash, addr) ==
    LET mv == Cell(hash, addr)
        ip0 == StdFind(b, mv)
        found == ip0 < c_cells_per_bucket
        ip == IF found THEN ip0 ELSE StdFind(b, EmptyCell)
        atEnd == ip = c_cells_per_bucket
        sp == IF atEnd THEN ip - 2 ELSE ip - 1
        dp == IF atEnd THEN ip - 1 ELSE ip
        b1 == IF ip > 0 THEN ShiftLoop(b, dp, sp, 0) ELSE b
    IN  IF b1[0] # mv
        THEN [cells |-> [b1 EXCEPT ![0] = mv], dirty |-> TRUE, found |-> found]
        ELSE [cells |-> b1, dirty |-> FALSE, found |-> found]

\* the contents the bucket passes through during while (dp > lo) { *dp-- = *sp--; }
RECURSIVE ShiftStates(_, _, _, _)
ShiftStates(b, dp, sp, lo) ==
    IF dp > lo
    THEN {b} \cup ShiftStates([b EXCEPT ![dp] = b[sp]], dp - 1, sp - 1, lo)
    ELSE {b}

\* the contents the bucket passes through during push_front_hash_addr, lines
\* 423-445: before, after each assignment of the shift, and after the store
push_front_states(b, hash, addr) ==
    LET mv == Cell(hash, addr)
        ip0 == StdFind(b, mv)
        ip == IF ip0 < c_cells_per_bucket THEN ip0 ELSE StdFind(b, EmptyCell)
        atEnd == ip = c_cells_per_bucket
        sp == IF atEnd THEN ip - 2 ELSE ip - 1
        dp == IF atEnd THEN ip - 1 ELSE ip
    IN  (IF ip > 0 THEN ShiftStates(b, dp, sp, 0) ELSE {b})
            \cup {push_front_cells(b, hash, addr).cells}

\* the first empty cell at or after pos, else end
ScanUp(b, pos) ==
    IF \E i \in CellIdx : i >= pos /\ b[i] = EmptyCell
    THEN CHOOSE i \in CellIdx : /\ i >= pos /\ b[i] = EmptyCell
                                /\ \A j \in CellIdx : (j >= pos /\ j < i) => b[j] # EmptyCell
    ELSE c_cells_per_bucket

\* the first empty cell going down from pos - 1, else -1
ScanDown(b, pos) ==
    IF \E i \in CellIdx : i < pos /\ b[i] = EmptyCell
    THEN CHOOSE i \in CellIdx : /\ i < pos /\ b[i] = EmptyCell
                                /\ \A j \in CellIdx : (j < pos /\ j > i) => b[j] # EmptyCell
    ELSE 0 - 1

\* faulty variant of push_random_hash_addr: no search for an existing match
push_random_cells_NoMatchSearch(b, hash, addr, pos) ==
    LET mv == Cell(hash, addr)
        up == ScanUp(b, pos)
        down == ScanDown(b, pos)
    IN  IF up < c_cells_per_bucket
        THEN [cells |-> [b EXCEPT ![up] = mv],
              dirty |-> TRUE, found |-> FALSE, case_cond |-> 3]
        ELSE IF pos > 0 /\ down >= 0
             THEN [cells |-> [b EXCEPT ![down] = mv],
                   dirty |-> TRUE, found |-> FALSE, case_cond |-> 4]
             ELSE [cells |-> [MoveBackward(b, pos, c_cells_per_bucket - 1,
                                           c_cells_per_bucket) EXCEPT ![pos] = mv],
                   dirty |-> TRUE, found |-> FALSE, case_cond |-> 5]

\* faulty variant of push_random_hash_addr: no downward search for an empty cell
push_random_cells_NoDownSearch(b, hash, addr, pos) ==
    LET mv == Cell(hash, addr)
        ip == StdFind(b, mv)
        found == ip < c_cells_per_bucket
        up == ScanUp(b, pos)
    IN  IF found
        THEN IF ip > pos
             THEN [cells |-> [ShiftLoop(b, ip, ip - 1, pos) EXCEPT ![pos] = mv],
                   dirty |-> TRUE, found |-> TRUE, case_cond |-> 1]
             ELSE [cells |-> b, dirty |-> FALSE, found |-> TRUE, case_cond |-> 2]
        ELSE IF up < c_cells_per_bucket
             THEN [cells |-> [b EXCEPT ![up] = mv],
                   dirty |-> TRUE, found |-> FALSE, case_cond |-> 3]
             ELSE [cells |-> [MoveBackward(b, pos, c_cells_per_bucket - 1,
                                           c_cells_per_bucket) EXCEPT ![pos] = mv],
                   dirty |-> TRUE, found |-> FALSE, case_cond |-> 5]

\* push_random_hash_addr on the cells of the bucket, pos the sampled position
push_random_cells(b, hash, addr, pos) ==
    LET mv == Cell(hash, addr)
        ip == StdFind(b, mv)
        found == ip < c_cells_per_bucket
        up == ScanUp(b, pos)
        down == ScanDown(b, pos)
    IN  IF found
        THEN IF ip > pos
             THEN [cells |-> [ShiftLoop(b, ip, ip - 1, pos) EXCEPT ![pos] = mv],
                   dirty |-> TRUE, found |-> TRUE, case_cond |-> 1]
             ELSE [cells |-> b, dirty |-> FALSE, found |-> TRUE, case_cond |-> 2]
        ELSE IF up < c_cells_per_bucket
             THEN [cells |-> [b EXCEPT ![up] = mv],
                   dirty |-> TRUE, found |-> FALSE, case_cond |-> 3]
             ELSE IF pos > 0 /\ down >= 0
                  THEN [cells |-> [b EXCEPT ![down] = mv],
                        dirty |-> TRUE, found |-> FALSE, case_cond |-> 4]
                  ELSE [cells |-> [MoveBackward(b, pos, c_cells_per_bucket - 1,
                                                c_cells_per_bucket) EXCEPT ![pos] = mv],
                        dirty |-> TRUE, found |-> FALSE, case_cond |-> 5]

\* verify_cell_range(p, q, clear_bugs): walks the cells in order with the set
\* seen_it; returns the cells after and bugs_found
VERIFY_CLEARS_BUGS == FALSE

RECURSIVE VerifyLoop(_, _, _, _, _)
VerifyLoop(b, i, seen_it, bugs_found, clear_bugs) ==
    IF i >= c_cells_per_bucket
    THEN [cells |-> b, bugs_found |-> bugs_found]
    ELSE LET magic == b[i].e_addr # 0 /\ b[i].e_addr < ADDR_MIN
             c1 == IF magic /\ clear_bugs THEN EmptyCell ELSE b[i]
             dup == c1.e_addr # 0 /\ c1 \in seen_it
             c2 == IF dup /\ clear_bugs THEN EmptyCell ELSE c1
             seen2 == IF c1.e_addr # 0 THEN seen_it \cup {c1} ELSE seen_it
             \* the state after this cell, computed once
             after == {[cells |-> [b EXCEPT ![i] = c2], seen_it |-> seen2,
                        bugs_found |-> bugs_found \/ magic \/ dup]}
         IN  CHOOSE r \in {VerifyLoop(a.cells, i + 1, a.seen_it, a.bugs_found, clear_bugs) :
                              a \in after} : TRUE

verify_cell_range(b, clear_bugs) == VerifyLoop(b, 0, {}, FALSE, clear_bugs)

\* ------------------------------------------------------------------------
\* State
\* ------------------------------------------------------------------------

\* scanner threads calling the public operations
Scanners == {"s1", "s2"}

Threads == Scanners \cup {"writeback", "prefetch", "destructor"}

NoThread == "nobody"

\* number of calls made in a run with a bounded number of calls
MaxCalls == 2

VARIABLES
    mem,                  \* the mapped table: bucket -> cells
    file,                 \* the backing file: bucket -> cells
    m_buckets_missing,    \* extents not yet read from the file
    m_buckets_dirty,      \* extents to write back
    m_bucket_mutex,       \* owner of m_bucket_mutex
    m_extent_lock_set,    \* extent -> owner of its LockSet lock
    pc,                   \* thread -> position
    call,                 \* scanner -> the operation in progress
    dirty_extent_copy,    \* writeback: snapshot of m_buckets_dirty still to write
    extent_copy,          \* writeback: private copy of the extent being written
    ext,                  \* prefetch: loop variable
    duplicate_bugs_found, \* prefetch: result of the scan of ext
    calls,                \* number of calls made so far
    ret,                  \* scanner -> what its operation returned, until it goes on
    erased,               \* the last erase not followed by a push on its bucket
    dtor,                 \* the locals of the destructor's flush_dirty_extents
    m_extent_mutex        \* owner of m_extent_mutex

vars == << mem, file, m_buckets_missing, m_buckets_dirty, m_bucket_mutex,
           m_extent_lock_set, pc, call, dirty_extent_copy, extent_copy, ext,
           duplicate_bugs_found, calls, ret, erased, dtor, m_extent_mutex >>

NoCall == [op |-> "none", hash |-> 0, addr |-> 0]

\* op: the operation; hash: the fingerprint a find looked up; rv: the cells
\* find_cell returned; found: the boolean a push returned; threw: the operation
\* ended with an exception; pos: the position push_random sampled
NoRet == [op |-> "none", hash |-> 0, rv |-> << >>, found |-> FALSE, threw |-> FALSE,
          pos |-> 0]

\* the locals of a flush_dirty_extents that is not running
NoFlush == [dirty_extent_copy |-> {}, extent_copy |-> << >>]

\* ------------------------------------------------------------------------
\* Initial states: the constructor has run; every extent is missing, the
\* anonymous mapping is zero, the file holds whatever an earlier run left
\* ------------------------------------------------------------------------

InitCommon ==
    /\ mem = [b \in Buckets |-> EmptyBucket]
    /\ m_buckets_missing = Extents
    /\ m_buckets_dirty = {}
    /\ m_bucket_mutex = NoThread
    /\ m_extent_lock_set = [e \in Extents |-> NoThread]
    /\ pc = [t \in Threads |->
                IF t \in Scanners THEN "idle"
                ELSE IF t = "writeback" THEN "flush"
                ELSE IF t = "prefetch" THEN "fetch_check" ELSE "alive"]
    /\ call = [t \in Scanners |-> NoCall]
    /\ dirty_extent_copy = {}
    /\ extent_copy = << >>
    /\ ext = 0
    /\ duplicate_bugs_found = FALSE
    /\ calls = 0
    /\ ret = [t \in Scanners |-> NoRet]
    /\ erased = << >>
    /\ dtor = NoFlush
    /\ m_extent_mutex = NoThread

\* a bucket holding the cells of s in order, then empty cells
BucketWith(s) == [i \in CellIdx |-> IF i < Len(s) THEN s[i + 1] ELSE EmptyCell]

EmptyFile == [b \in Buckets |-> EmptyBucket]

\* a file without invariant violations
CleanFile ==
    [b \in Buckets |->
        IF b = BucketOf(HASH_A)
        THEN BucketWith(<< Cell(HASH_A, ADDR_MIN), Cell(HASH_B, ADDR_MIN) >>)
        ELSE IF b = BucketOf(HASH_LAST)
             THEN BucketWith(<< Cell(HASH_LAST, ADDR_MIN) >>)
             ELSE EmptyBucket]

\* a file left by an earlier bug: a duplicate cell in the last extent and a
\* reserved address in the first
BuggyFile ==
    [CleanFile EXCEPT ![BucketOf(HASH_LAST)] =
                          BucketWith(<< Cell(HASH_LAST, ADDR_MIN), Cell(HASH_LAST, ADDR_MIN) >>),
                      ![BucketOf(HASH_A)] =
                          BucketWith(<< Cell(HASH_A, ADDR_MAGIC), Cell(HASH_B, ADDR_MIN) >>)]

FileImages == {EmptyFile, CleanFile, BuggyFile}

Init == InitCommon /\ file \in FileImages

InitClean == InitCommon /\ file \in {EmptyFile, CleanFile}

InitEmpty == InitCommon /\ file = EmptyFile

\* the contents of bucket 1 for the operation contracts: every arrangement of
\* two cells of one fingerprint and the empty cell (duplicates included), and
\* some with a reserved address and a second fingerprint
InitCells == {EmptyCell, Cell(HASH_A, ADDR_MIN), Cell(HASH_A, ADDR_TWO)}

MixedBuckets ==
    { BucketWith(<< Cell(HASH_B, ADDR_MIN), Cell(HASH_A, ADDR_MAGIC), Cell(HASH_A, ADDR_MIN) >>),
      BucketWith(<< Cell(HASH_A, ADDR_MAGIC), Cell(HASH_A, ADDR_MIN), Cell(HASH_B, ADDR_MIN) >>),
      BucketWith(<< Cell(HASH_A, ADDR_TWO), Cell(HASH_B, ADDR_MIN), Cell(HASH_A, ADDR_MIN) >>),
      BucketWith(<< Cell(HASH_B, ADDR_MIN), Cell(HASH_B, ADDR_MIN), Cell(HASH_A, ADDR_MAGIC) >>) }

\* bucket 0 holds a cell of a fingerprint of bucket 1
InitOps ==
    /\ InitCommon
    /\ \E b \in [CellIdx -> InitCells] \cup MixedBuckets :
          file = [EmptyFile EXCEPT ![BucketOf(HASH_A)] = b,
                                   ![0] = BucketWith(<< Cell(HASH_A, ADDR_MIN) >>)]

\* ------------------------------------------------------------------------
\* set_extent_dirty and the condition variable
\* ------------------------------------------------------------------------

\* set_extent_dirty(hash): m_buckets_dirty.insert(extent of hash)
set_extent_dirty(dirty, hash) == dirty \cup {get_extent_range(hash)}

\* a section under unique_lock<mutex> lock(m_extent_mutex) run by thread t: it
\* takes no other lock and does not block, and ends with the mutex released
\* (unlock, return, or m_condvar.wait)
ExtentMutexSection(t) ==
    /\ m_extent_mutex \in {NoThread, t}
    /\ m_extent_mutex' = NoThread

\* unique_lock<mutex> lock(m_extent_mutex) or lock.lock() as a step of its
\* own: lines 99 (flush_dirty_extents), 137 (set_extent_dirty called by the
\* prefetcher), 303, 318 and 341 (fetch_missing_extent)
ExtentMutexLock(t) ==
    /\ m_extent_mutex = NoThread
    /\ \/ pc[t] \in {"fetch_check", "fetch_recheck", "fetch_done"}
       \/ t = "writeback" /\ pc[t] = "flush"
       \/ t = "prefetch" /\ pc[t] = "set_dirty"
    /\ m_extent_mutex' = t
    /\ UNCHANGED << mem, file, m_buckets_missing, m_buckets_dirty, m_bucket_mutex,
                    m_extent_lock_set, pc, call, dirty_extent_copy, extent_copy, ext,
                    duplicate_bugs_found, calls, ret, erased, dtor >>

\* faulty variant of m_condvar.notify_one(): the wake-up is lost
notify_one_Lost(p) == {p}

\* m_condvar.notify_one(): one of the threads waiting in flush_dirty_extents
\* returns from the wait and from the function: the writeback thread calls it
\* again, the destructor goes on to munmap. The outcomes possible.
notify_one(p) ==
    LET waiting == {t \in {"writeback", "destructor"} : p[t] = "wait"}
    IN  IF waiting = {} THEN {p}
        ELSE {[p EXCEPT ![t] = IF t = "writeback" THEN "flush" ELSE "munmap"] : t \in waiting}

\* ------------------------------------------------------------------------
\* fetch_missing_extent, run by the scanners' operations and by the prefetcher
\* ------------------------------------------------------------------------

Fetchers == Scanners \cup {"prefetch"}

\* the hash fetch_missing_extent is called with
FetchHash(t) == IF t = "prefetch" THEN ext * c_buckets_per_extent ELSE call[t].hash

extent_number(t) == get_extent_range(FetchHash(t))

\* the operation of scanner t ends with an exception
Throw(t) ==
    /\ ret' = [ret EXCEPT ![t] = [NoRet EXCEPT !.op = call[t].op, !.threw = TRUE]]
    /\ call' = [call EXCEPT ![t] = NoCall]

\* the prefetcher goes on to the next extent (after the last one: statistics,
\* sleep, and the next pass)
NextExt == ext' = (ext + 1) % m_extents

\* lines 303-309: first look at m_buckets_missing
FetchCheck(t) ==
    /\ pc[t] = "fetch_check"
    /\ pc' = [pc EXCEPT ![t] = IF extent_number(t) \in m_buckets_missing
                               THEN "fetch_lock" ELSE "lock_bucket"]
    /\ UNCHANGED << mem, file, m_buckets_missing, m_buckets_dirty, m_bucket_mutex,
                    m_extent_lock_set, call, dirty_extent_copy, extent_copy, ext,
                    duplicate_bugs_found, calls, ret, erased, dtor >>
    /\ ExtentMutexSection(t)

\* line 314: take the lock of this extent
FetchLock(t) ==
    /\ pc[t] = "fetch_lock"
    /\ m_extent_lock_set[extent_number(t)] = NoThread
    /\ m_extent_lock_set' = [m_extent_lock_set EXCEPT ![extent_number(t)] = t]
    /\ pc' = [pc EXCEPT ![t] = "fetch_recheck"]
    /\ UNCHANGED << mem, file, m_buckets_missing, m_buckets_dirty, m_bucket_mutex,
                    call, dirty_extent_copy, extent_copy, ext,
                    duplicate_bugs_found, calls, ret, erased, dtor, m_extent_mutex >>

\* faulty variant of lines 318-323: no second look, the extent is read
FetchRecheck_Skipped(t) ==
    /\ pc[t] = "fetch_recheck"
    /\ pc' = [pc EXCEPT ![t] = "fetch_read"]
    /\ UNCHANGED << mem, file, m_buckets_missing, m_buckets_dirty, m_bucket_mutex,
                    m_extent_lock_set, call, dirty_extent_copy, extent_copy, ext,
                    duplicate_bugs_found, calls, ret, erased, dtor >>
    /\ ExtentMutexSection(t)

\* lines 318-323: look again; somebody else may have fetched the extent
FetchRecheck(t) ==
    /\ pc[t] = "fetch_recheck"
    /\ IF extent_number(t) \in m_buckets_missing
       THEN /\ pc' = [pc EXCEPT ![t] = "fetch_read"]
            /\ UNCHANGED m_extent_lock_set
       ELSE /\ pc' = [pc EXCEPT ![t] = "lock_bucket"]
            /\ m_extent_lock_set' = [m_extent_lock_set EXCEPT ![extent_number(t)] = NoThread]
    /\ UNCHANGED << mem, file, m_buckets_missing, m_buckets_dirty, m_bucket_mutex,
                    call, dirty_extent_copy, extent_copy, ext,
                    duplicate_bugs_found, calls, ret, erased, dtor >>
    /\ ExtentMutexSection(t)

\* line 334: pread_or_die reads the extent from the file into the mapping
pread_or_die(m, f, e) == [b \in Buckets |-> IF b \in ExtentBuckets(e) THEN f[b] ELSE m[b]]

FetchRead(t) ==
    /\ pc[t] = "fetch_read"
    /\ mem' = pread_or_die(mem, file, extent_number(t))
    /\ pc' = [pc EXCEPT ![t] = "fetch_done"]
    /\ UNCHANGED << file, m_buckets_missing, m_buckets_dirty, m_bucket_mutex,
                    m_extent_lock_set, call, dirty_extent_copy, extent_copy, ext,
                    duplicate_bugs_found, calls, ret, erased, dtor, m_extent_mutex >>

\* faulty variant of the failed read: the extent lock is not released
FetchReadFail_KeepsLock(t) ==
    /\ pc[t] = "fetch_read"
    /\ UNCHANGED m_extent_lock_set
    /\ IF t = "prefetch"
       THEN /\ NextExt
            /\ pc' = [pc EXCEPT ![t] = "fetch_check"]
            /\ UNCHANGED << call, ret, dtor, m_extent_mutex >>
       ELSE /\ Throw(t)
            /\ pc' = [pc EXCEPT ![t] = "returned"]
            /\ UNCHANGED ext
    /\ UNCHANGED << mem, file, m_buckets_missing, m_buckets_dirty, m_bucket_mutex,
                    dirty_extent_copy, extent_copy,
                    duplicate_bugs_found, calls, erased, dtor, m_extent_mutex >>

\* line 334: pread_or_die throws; the extent lock is released by unwinding.
\* A scanner's operation throws to its caller; the prefetcher's catch_all
\* swallows the exception and the loop goes on to the next extent.
FetchReadFail(t) ==
    /\ pc[t] = "fetch_read"
    /\ m_extent_lock_set' = [m_extent_lock_set EXCEPT ![extent_number(t)] = NoThread]
    /\ IF t = "prefetch"
       THEN /\ NextExt
            /\ pc' = [pc EXCEPT ![t] = "fetch_check"]
            /\ UNCHANGED << call, ret, dtor, m_extent_mutex >>
       ELSE /\ Throw(t)
            /\ pc' = [pc EXCEPT ![t] = "returned"]
            /\ UNCHANGED ext
    /\ UNCHANGED << mem, file, m_buckets_missing, m_buckets_dirty, m_bucket_mutex,
                    dirty_extent_copy, extent_copy,
                    duplicate_bugs_found, calls, erased, dtor, m_extent_mutex >>

\* lines 341-343: the extent is no longer missing; both locks are released
FetchDone(t) ==
    /\ pc[t] = "fetch_done"
    /\ m_buckets_missing' = m_buckets_missing \ {extent_number(t)}
    /\ m_extent_lock_set' = [m_extent_lock_set EXCEPT ![extent_number(t)] = NoThread]
    /\ pc' = [pc EXCEPT ![t] = "lock_bucket"]
    /\ UNCHANGED << mem, file, m_buckets_dirty, m_bucket_mutex,
                    call, dirty_extent_copy, extent_copy, ext,
                    duplicate_bugs_found, calls, ret, erased, dtor >>
    /\ ExtentMutexSection(t)

\* unique_lock<mutex> lock(m_bucket_mutex)
LockBucket(t) ==
    /\ pc[t] = "lock_bucket"
    /\ m_bucket_mutex = NoThread
    /\ m_bucket_mutex' = t
    /\ pc' = [pc EXCEPT ![t] = "body"]
    /\ UNCHANGED << mem, file, m_buckets_missing, m_buckets_dirty,
                    m_extent_lock_set, call, dirty_extent_copy, extent_copy, ext,
                    duplicate_bugs_found, calls, ret, erased, dtor, m_extent_mutex >>

\* ------------------------------------------------------------------------
\* The scanners' operations
\* ------------------------------------------------------------------------

Ops == {"find", "erase", "push_front", "push_random"}

\* find_cell, lines 355-363: a toxic hash is answered without touching the table
toxic_cell(hash) == << Cell(hash, set_toxic(ADDR_MIN)) >>

\* find_cell, line 370
find_cell_rv(b, hash) == CopyIf(b, 0, hash)

\* a scanner calls op(hash, addr): find_cell of a toxic hash returns at once
\* (line 362); every other operation begins with fetch_missing_extent(hash)
Begin(t, op, hash, addr) ==
    /\ pc[t] = "idle"
    /\ IF op = "find" /\ is_toxic_hash(hash)
       THEN /\ ret' = [ret EXCEPT ![t] = [NoRet EXCEPT !.op = "find", !.hash = hash,
                                                        !.rv = toxic_cell(hash)]]
            /\ pc' = [pc EXCEPT ![t] = "returned"]
            /\ UNCHANGED call
       ELSE /\ call' = [call EXCEPT ![t] = [op |-> op, hash |-> hash, addr |-> addr]]
            /\ pc' = [pc EXCEPT ![t] = "fetch_check"]
            /\ UNCHANGED ret
    /\ UNCHANGED << mem, file, m_buckets_missing, m_buckets_dirty, m_bucket_mutex,
                    m_extent_lock_set, dirty_extent_copy, extent_copy, ext,
                    duplicate_bugs_found, erased, dtor, m_extent_mutex >>

\* a call with a cell of cells as (hash, addr), or a find of a hash of hashes
Calls(t, cells, hashes) ==
    \/ \E hash \in hashes : Begin(t, "find", hash, 0)
    \/ \E op \in Ops \ {"find"}, c \in cells : Begin(t, op, c.e_hash, c.e_addr)

\* the calls made beside the background threads
SpecCells == {Cell(HASH_A, ADDR_MIN), Cell(HASH_LAST, ADDR_MIN)}

Call(t) ==
    /\ calls < MaxCalls
    /\ calls' = calls + 1
    /\ Calls(t, SpecCells, {HASH_A, HASH_LAST, HASH_TOXIC})

\* the calls of scanners running against each other
ScanCells == {Cell(HASH_A, ADDR_MIN), Cell(HASH_B, ADDR_MIN), Cell(HASH_A, ADDR_MAGIC)}

CallScan(t) ==
    /\ Calls(t, ScanCells, {HASH_A, HASH_B, HASH_TOXIC})
    /\ UNCHANGED calls

\* the calls of scanners fetching beside the prefetcher: both scanners on the
\* extent of HASH_A, and lookups in the last extent
FetchCells == {Cell(HASH_A, ADDR_MIN)}

CallFetch(t) ==
    /\ calls < MaxCalls
    /\ calls' = calls + 1
    /\ Calls(t, FetchCells, {HASH_A, HASH_LAST})

\* the calls made to check the operation contracts: every cell a bucket may
\* hold, the empty cell and the toxic cell included
OpsCells == {EmptyCell, Cell(HASH_A, ADDR_MIN), Cell(HASH_A, ADDR_TWO),
             Cell(HASH_B, ADDR_MIN), Cell(HASH_A, ADDR_MAGIC),
             Cell(HASH_TOXIC, TOXIC_ADDR)}

CallOps(t) ==
    /\ calls < MaxCalls
    /\ calls' = calls + 1
    /\ Calls(t, OpsCells, {0, HASH_A, HASH_B, HASH_TOXIC})

\* the caller goes on with what the operation returned
Resume(t) ==
    /\ pc[t] = "returned"
    /\ ret' = [ret EXCEPT ![t] = NoRet]
    /\ pc' = [pc EXCEPT ![t] = "idle"]
    /\ UNCHANGED << mem, file, m_buckets_missing, m_buckets_dirty, m_bucket_mutex,
                    m_extent_lock_set, call, dirty_extent_copy, extent_copy, ext,
                    duplicate_bugs_found, calls, erased, dtor, m_extent_mutex >>

\* the operation of scanner t returns: the bucket mutex is released
Return(t) ==
    /\ m_bucket_mutex' = NoThread
    /\ call' = [call EXCEPT ![t] = NoCall]
    /\ UNCHANGED << file, m_buckets_missing, m_extent_lock_set, dirty_extent_copy,
                    extent_copy, ext, duplicate_bugs_found, calls, dtor >>

\* find_cell, lines 367-372
FindBody(t) ==
    /\ pc[t] = "body" /\ t \in Scanners /\ call[t].op = "find"
    /\ ret' = [ret EXCEPT ![t] =
                  [NoRet EXCEPT !.op = "find", !.hash = call[t].hash,
                                !.rv = find_cell_rv(mem[BucketOf(call[t].hash)], call[t].hash)]]
    /\ Return(t)
    /\ pc' = [pc EXCEPT ![t] = "returned"]
    /\ UNCHANGED << mem, m_buckets_dirty, erased, dtor, m_extent_mutex >>

\* a mutating operation with result r on bucket bi: the cells are written,
\* set_extent_dirty(hash) is called when r.dirty, and the operation returns
Mutate(t, bi, r, pos) ==
    /\ mem' = [mem EXCEPT ![bi] = r.cells]
    /\ m_buckets_dirty' = IF r.dirty THEN set_extent_dirty(m_buckets_dirty, call[t].hash)
                          ELSE m_buckets_dirty
    /\ pc' \in IF r.dirty THEN notify_one([pc EXCEPT ![t] = "returned"])
                ELSE {[pc EXCEPT ![t] = "returned"]}
    /\ ret' = [ret EXCEPT ![t] =
                  [NoRet EXCEPT !.op = call[t].op, !.pos = pos,
                                !.found = IF call[t].op = "erase" THEN FALSE ELSE r.found]]
    /\ Return(t)
    /\ IF r.dirty THEN ExtentMutexSection(t) ELSE UNCHANGED m_extent_mutex

\* erase_hash_addr, lines 385-400
EraseBody(t) ==
    /\ pc[t] = "body" /\ t \in Scanners /\ call[t].op = "erase"
    /\ LET bi == BucketOf(call[t].hash)
           mv == Cell(call[t].hash, call[t].addr)
       IN  /\ Mutate(t, bi, erase_cells(mem[bi], call[t].hash, call[t].addr), 0)
           /\ erased' = << [cell |-> mv,
                            copies |-> Cardinality({i \in CellIdx : mem[bi][i] = mv})] >>

\* a push on the bucket of a remembered erase ends the erase's claim on it
AfterPush(bi) ==
    erased' = IF erased # << >> /\ BucketOf(erased[1].cell.e_hash) = bi THEN << >> ELSE erased

\* push_front_hash_addr, lines 413-451
PushFrontBody(t) ==
    /\ pc[t] = "body" /\ t \in Scanners /\ call[t].op = "push_front"
    /\ LET bi == BucketOf(call[t].hash)
       IN  /\ Mutate(t, bi, push_front_cells(mem[bi], call[t].hash, call[t].addr), 0)
           /\ AfterPush(bi)

\* push_random_hash_addr, lines 464-539; pos is the sample of the distribution
PushRandomBody(t) ==
    /\ pc[t] = "body" /\ t \in Scanners /\ call[t].op = "push_random"
    /\ \E pos \in CellIdx :
          LET bi == BucketOf(call[t].hash)
          IN  /\ Mutate(t, bi, push_random_cells(mem[bi], call[t].hash, call[t].addr, pos), pos)
              /\ AfterPush(bi)

\* ------------------------------------------------------------------------
\* The writeback thread: writeback_loop calling flush_dirty_extents
\* ------------------------------------------------------------------------

\* lines 99-107 with a non-empty dirty set: snapshot and clear
FlushTake ==
    /\ pc["writeback"] = "flush"
    /\ m_buckets_dirty # {}
    /\ dirty_extent_copy' = m_buckets_dirty
    /\ m_buckets_dirty' = {}
    /\ pc' = [pc EXCEPT !["writeback"] = "copy"]
    /\ UNCHANGED << mem, file, m_buckets_missing, m_bucket_mutex, m_extent_lock_set,
                    call, extent_copy, ext, duplicate_bugs_found, calls, ret, erased, dtor >>
    /\ ExtentMutexSection("writeback")

\* lines 102-106 with an empty dirty set: wait on m_condvar
FlushIdle ==
    /\ pc["writeback"] = "flush"
    /\ m_buckets_dirty = {}
    /\ pc' = [pc EXCEPT !["writeback"] = "wait"]
    /\ UNCHANGED << mem, file, m_buckets_missing, m_buckets_dirty, m_bucket_mutex,
                    m_extent_lock_set, call, dirty_extent_copy, extent_copy, ext,
                    duplicate_bugs_found, calls, ret, erased, dtor >>
    /\ ExtentMutexSection("writeback")

\* the extent the loop of line 110 is at: std::set iterates in increasing order
extent_number_wb == CHOOSE e \in dirty_extent_copy : \A o \in dirty_extent_copy : e <= o

\* line 121: vector<uint8_t> extent_copy(dirty_extent, dirty_extent_end)
CopyExtent(m, e) == [e_num |-> e, data |-> [b \in ExtentBuckets(e) |-> m[b]]]

WbCopy ==
    /\ pc["writeback"] = "copy"
    /\ extent_copy' = << CopyExtent(mem, extent_number_wb) >>
    /\ pc' = [pc EXCEPT !["writeback"] = "write"]
    /\ UNCHANGED << mem, file, m_buckets_missing, m_buckets_dirty, m_bucket_mutex,
                    m_extent_lock_set, call, dirty_extent_copy, ext,
                    duplicate_bugs_found, calls, ret, erased, dtor, m_extent_mutex >>

\* a copy of a bucket read, without m_bucket_mutex, while the bucket passes
\* through the contents S: each cell is read at some moment of its own
TornBuckets(S) ==
    {c \in [CellIdx -> {s[i] : s \in S, i \in CellIdx}] :
        \A i \in CellIdx : \E s \in S : c[i] = s[i]}

\* line 121 while a push_front_hash_addr of scanner t is shifting a bucket of
\* the extent: the copy is taken without m_bucket_mutex, so it races with the
\* assignments of lines 427-440
WbCopyTorn ==
    /\ pc["writeback"] = "copy"
    /\ \E t \in Scanners :
          /\ pc[t] = "body" /\ call[t].op = "push_front"
          /\ BucketOf(call[t].hash) \in ExtentBuckets(extent_number_wb)
          /\ \E c \in TornBuckets(push_front_states(mem[BucketOf(call[t].hash)],
                                                     call[t].hash, call[t].addr)) :
                extent_copy' = << [CopyExtent(mem, extent_number_wb)
                                     EXCEPT !.data[BucketOf(call[t].hash)] = c] >>
    /\ pc' = [pc EXCEPT !["writeback"] = "write"]
    /\ UNCHANGED << mem, file, m_buckets_missing, m_buckets_dirty, m_bucket_mutex,
                    m_extent_lock_set, call, dirty_extent_copy, ext,
                    duplicate_bugs_found, calls, ret, erased, dtor, m_extent_mutex >>

\* line 122: pwrite_or_die writes the copy at the extent's offset
pwrite_or_die(f, c) == [b \in Buckets |-> IF b \in DOMAIN c.data THEN c.data[b] ELSE f[b]]

\* lines 125-127: on to the next extent of the snapshot, or back to the loop
WbNext ==
    /\ dirty_extent_copy' = dirty_extent_copy \ {extent_number_wb}
    /\ extent_copy' = << >>
    /\ pc' = [pc EXCEPT !["writeback"] =
                 IF dirty_extent_copy \ {extent_number_wb} = {} THEN "flush" ELSE "copy"]

WbWrite ==
    /\ pc["writeback"] = "write"
    /\ file' = pwrite_or_die(file, extent_copy[1])
    /\ WbNext
    /\ UNCHANGED << mem, m_buckets_missing, m_buckets_dirty, m_bucket_mutex,
                    m_extent_lock_set, call, ext,
                    duplicate_bugs_found, calls, ret, erased, dtor, m_extent_mutex >>

\* line 122: pwrite_or_die throws; catch_all swallows the exception
WbWriteFail ==
    /\ pc["writeback"] = "write"
    /\ WbNext
    /\ UNCHANGED << mem, file, m_buckets_missing, m_buckets_dirty, m_bucket_mutex,
                    m_extent_lock_set, call, ext,
                    duplicate_bugs_found, calls, ret, erased, dtor, m_extent_mutex >>

\* ------------------------------------------------------------------------
\* The prefetch thread: prefetch_loop
\* ------------------------------------------------------------------------

\* lines 189-192: verify_cell_range on every bucket of the extent
RECURSIVE ScanExtent(_, _, _)
ScanExtent(m, bs, found) ==
    IF bs = {} THEN [mem |-> m, duplicate_bugs_found |-> found]
    ELSE LET b == CHOOSE x \in bs : \A y \in bs : x <= y
             \* the bucket after verify_cell_range, computed once
             after == {verify_cell_range(m[b], VERIFY_CLEARS_BUGS)}
         IN  CHOOSE s \in {ScanExtent([m EXCEPT ![b] = r.cells], bs \ {b},
                                      found \/ r.bugs_found) : r \in after} : TRUE

\* lines 186-217: the scan of extent ext under m_bucket_mutex
PrefetchScan ==
    /\ pc["prefetch"] = "body"
    /\ LET r == ScanExtent(mem, ExtentBuckets(ext), FALSE)
       IN  /\ mem' = r.mem
           /\ duplicate_bugs_found' = r.duplicate_bugs_found
           /\ pc' = [pc EXCEPT !["prefetch"] =
                        IF r.duplicate_bugs_found THEN "set_dirty" ELSE "fetch_check"]
           /\ IF r.duplicate_bugs_found THEN UNCHANGED ext ELSE NextExt
    /\ m_bucket_mutex' = NoThread
    /\ UNCHANGED << file, m_buckets_missing, m_buckets_dirty, m_extent_lock_set,
                    call, dirty_extent_copy, extent_copy, calls, ret, erased, dtor, m_extent_mutex >>

\* lines 218-220: set_extent_dirty(ext)
PrefetchDirty ==
    /\ pc["prefetch"] = "set_dirty"
    /\ m_buckets_dirty' = set_extent_dirty(m_buckets_dirty, ext)
    /\ pc' \in notify_one([pc EXCEPT !["prefetch"] = "fetch_check"])
    /\ duplicate_bugs_found' = FALSE
    /\ NextExt
    /\ UNCHANGED << mem, file, m_buckets_missing, m_bucket_mutex, m_extent_lock_set,
                    call, dirty_extent_copy, extent_copy, calls, ret, erased, dtor >>
    /\ ExtentMutexSection("prefetch")

\* ------------------------------------------------------------------------
\* The destructor: flush_dirty_extents once, then munmap
\* ------------------------------------------------------------------------

\* ~BeesHashTable is entered (line 678: m_cell_ptr && m_size) when no
\* operation is running; the writeback and prefetch threads are still running
DtorStart ==
    /\ pc["destructor"] = "alive"
    /\ \A t \in Scanners : pc[t] \in {"idle", "returned"}
    /\ pc' = [pc EXCEPT !["destructor"] = "flush"]
    /\ UNCHANGED << mem, file, m_buckets_missing, m_buckets_dirty, m_bucket_mutex,
                    m_extent_lock_set, call, dirty_extent_copy, extent_copy, ext,
                    duplicate_bugs_found, calls, ret, erased, dtor, m_extent_mutex >>

\* lines 99-107 with a non-empty dirty set: snapshot and clear
DtorFlushTake ==
    /\ pc["destructor"] = "flush"
    /\ m_buckets_dirty # {}
    /\ dtor' = [dtor EXCEPT !.dirty_extent_copy = m_buckets_dirty]
    /\ m_buckets_dirty' = {}
    /\ pc' = [pc EXCEPT !["destructor"] = "copy"]
    /\ UNCHANGED << mem, file, m_buckets_missing, m_bucket_mutex, m_extent_lock_set,
                    call, dirty_extent_copy, extent_copy, ext, duplicate_bugs_found,
                    calls, ret, erased >>
    /\ ExtentMutexSection("destructor")

\* lines 102-106 with an empty dirty set: wait on m_condvar
DtorFlushIdle ==
    /\ pc["destructor"] = "flush"
    /\ m_buckets_dirty = {}
    /\ pc' = [pc EXCEPT !["destructor"] = "wait"]
    /\ UNCHANGED << mem, file, m_buckets_missing, m_buckets_dirty, m_bucket_mutex,
                    m_extent_lock_set, call, dirty_extent_copy, extent_copy, ext,
                    duplicate_bugs_found, calls, ret, erased, dtor >>
    /\ ExtentMutexSection("destructor")

\* the extent the destructor's loop of line 110 is at
extent_number_dtor ==
    CHOOSE e \in dtor.dirty_extent_copy : \A o \in dtor.dirty_extent_copy : e <= o

\* line 121
DtorCopy ==
    /\ pc["destructor"] = "copy"
    /\ dtor' = [dtor EXCEPT !.extent_copy = << CopyExtent(mem, extent_number_dtor) >>]
    /\ pc' = [pc EXCEPT !["destructor"] = "write"]
    /\ UNCHANGED << mem, file, m_buckets_missing, m_buckets_dirty, m_bucket_mutex,
                    m_extent_lock_set, call, dirty_extent_copy, extent_copy, ext,
                    duplicate_bugs_found, calls, ret, erased, m_extent_mutex >>

\* lines 125-127: on to the next extent of the snapshot; after the last one
\* flush_dirty_extents returns to the destructor
DtorNext ==
    /\ dtor' = [dirty_extent_copy |-> dtor.dirty_extent_copy \ {extent_number_dtor},
                extent_copy |-> << >>]
    /\ pc' = [pc EXCEPT !["destructor"] =
                 IF dtor.dirty_extent_copy \ {extent_number_dtor} = {} THEN "munmap"
                 ELSE "copy"]

\* line 122
DtorWrite ==
    /\ pc["destructor"] = "write"
    /\ file' = pwrite_or_die(file, dtor.extent_copy[1])
    /\ DtorNext
    /\ UNCHANGED << mem, m_buckets_missing, m_buckets_dirty, m_bucket_mutex,
                    m_extent_lock_set, call, dirty_extent_copy, extent_copy, ext,
                    duplicate_bugs_found, calls, ret, erased, m_extent_mutex >>

\* line 122: pwrite_or_die throws; catch_all swallows the exception
DtorWriteFail ==
    /\ pc["destructor"] = "write"
    /\ DtorNext
    /\ UNCHANGED << mem, file, m_buckets_missing, m_buckets_dirty, m_bucket_mutex,
                    m_extent_lock_set, call, dirty_extent_copy, extent_copy, ext,
                    duplicate_bugs_found, calls, ret, erased, m_extent_mutex >>

\* lines 680-684: munmap releases the mapping
DtorMunmap ==
    /\ pc["destructor"] = "munmap"
    /\ pc' = [pc EXCEPT !["destructor"] = "released"]
    /\ UNCHANGED << mem, file, m_buckets_missing, m_buckets_dirty, m_bucket_mutex,
                    m_extent_lock_set, call, dirty_extent_copy, extent_copy, ext,
                    duplicate_bugs_found, calls, ret, erased, dtor, m_extent_mutex >>

\* ------------------------------------------------------------------------
\* Specifications
\* ------------------------------------------------------------------------

Fetch(t) ==
    \/ FetchCheck(t)
    \/ FetchLock(t)
    \/ FetchRecheck(t)
    \/ FetchRead(t)
    \/ FetchReadFail(t)
    \/ FetchDone(t)
    \/ LockBucket(t)

Body(t) ==
    \/ FindBody(t)
    \/ EraseBody(t)
    \/ PushFrontBody(t)
    \/ PushRandomBody(t)

Writeback ==
    \/ FlushTake
    \/ FlushIdle
    \/ WbCopy
    \/ WbWrite
    \/ WbWriteFail

Prefetch ==
    \/ PrefetchScan
    \/ PrefetchDirty

Destructor ==
    \/ DtorStart
    \/ DtorFlushTake
    \/ DtorFlushIdle
    \/ DtorCopy
    \/ DtorWrite
    \/ DtorWriteFail
    \/ DtorMunmap

Next ==
    \/ \E t \in Scanners : Call(t) \/ Body(t) \/ Resume(t)
    \/ \E t \in Fetchers : Fetch(t)
    \/ Writeback
    \/ Prefetch

\* the whole table: scanners, writeback and prefetch, any file
Spec == Init /\ [][Next]_vars

\* the scanners alone, running against each other
NextScan ==
    \/ \E t \in Scanners : CallScan(t) \/ Fetch(t) \/ Body(t) \/ Resume(t)

\* ... started on a file without duplicate cells
SpecClean == InitClean /\ [][NextScan]_vars

\* ... started on an empty file
SpecEmpty == InitEmpty /\ [][NextScan]_vars

\* one scanner alone, on every content of a bucket and every argument
NextOps ==
    \/ CallOps("s1")
    \/ Fetch("s1")
    \/ Body("s1")
    \/ Resume("s1")

SpecOps == InitOps /\ [][NextOps]_vars

\* the scanners and the prefetcher, all fetching extents
NextFetch ==
    \/ \E t \in Scanners : CallFetch(t) \/ Fetch(t) \/ Body(t) \/ Resume(t)
    \/ Fetch("prefetch")
    \/ Prefetch

SpecFetch == Init /\ [][NextFetch]_vars

\* the writeback thread when every write succeeds
WritebackSucceeds ==
    \/ FlushTake
    \/ FlushIdle
    \/ WbCopy
    \/ WbWrite

\* one scanner and the writeback thread, every write succeeding
NextLive ==
    \/ Call("s1")
    \/ Fetch("s1")
    \/ Body("s1")
    \/ Resume("s1")
    \/ WritebackSucceeds

\* writeback_loop calls flush_dirty_extents for ever: the writeback thread
\* takes a step whenever it can
FairLive == WF_vars(WritebackSucceeds)

SpecLive == Init /\ [][NextLive]_vars /\ FairLive

\* one scanner and the writeback thread, whose copy of an extent may be taken
\* in the middle of a push_front
NextRace ==
    \/ Call("s1")
    \/ Fetch("s1")
    \/ Body("s1")
    \/ Resume("s1")
    \/ Writeback
    \/ WbCopyTorn

SpecRace == Init /\ [][NextRace]_vars

\* the scanners, the writeback thread and the prefetcher, with the taking of
\* m_extent_mutex as a step of its own
NextLocks ==
    \/ \E t \in Scanners : CallFetch(t) \/ Fetch(t) \/ Body(t) \/ Resume(t)
    \/ Fetch("prefetch")
    \/ Prefetch
    \/ Writeback
    \/ \E t \in Fetchers \cup {"writeback"} : ExtentMutexLock(t)

SpecLocks == Init /\ [][NextLocks]_vars

\* a call made before the destructor is entered
CallAlive(t) == pc["destructor"] = "alive" /\ Call(t)

\* one scanner, the background threads, and the destruction of the table
NextDtor ==
    \/ CallAlive("s1")
    \/ Fetch("s1")
    \/ Body("s1")
    \/ Resume("s1")
    \/ Fetch("prefetch")
    \/ Prefetch
    \/ Writeback
    \/ Destructor

\* every thread that can take a step eventually takes one
FairDtor ==
    /\ WF_vars(Fetch("s1") \/ Body("s1") \/ Resume("s1"))
    /\ WF_vars(Fetch("prefetch") \/ Prefetch)
    /\ WF_vars(Writeback)
    /\ WF_vars(Destructor)

SpecDtor == Init /\ [][NextDtor]_vars /\ FairDtor

\* ------------------------------------------------------------------------
\* The operation contracts (SpecOps)
\* ------------------------------------------------------------------------

\* scanner t's operation op runs its body in this step
Runs(t, op) == pc[t] = "body" /\ call[t].op = op /\ pc'[t] = "returned"

\* the k-th smallest element of a set of indices
KthIdx(S, k) == CHOOSE i \in S : Cardinality({j \in S : j < i}) = k - 1

\* the cells of b with fingerprint h and a valid address, by increasing index
RefFind(b, h) ==
    LET M == {i \in CellIdx : b[i].e_hash = h /\ b[i].e_addr >= 4096}
    IN  [k \in 1 .. Cardinality(M) |-> b[KthIdx(M, k)]]

\* the smallest index of b holding cell c
FirstOf(b, c) == CHOOSE i \in CellIdx : b[i] = c /\ \A j \in CellIdx : b[j] = c => i <= j

Holds(b, c) == \E i \in CellIdx : b[i] = c

\* v written at lo and the cells lo .. hi - 1 moved up by one
RotateRight(b, lo, hi, v) ==
    [i \in CellIdx |-> IF i = lo THEN v
                       ELSE IF i > lo /\ i <= hi THEN b[i - 1] ELSE b[i]]

\* C1: for a non-toxic fingerprint h, find(h) returns exactly the cells of
\* bucket h mod m_buckets with fingerprint h and an address >= 0x1000, in
\* increasing index order, and nothing else
C1_FindReturnsMatches ==
    [][\A t \in Scanners : Runs(t, "find") =>
          /\ ret'[t].rv = RefFind(mem[call[t].hash % m_buckets], call[t].hash)
          /\ ~ret'[t].threw]_vars

\* a find returned two cells in bucket order, skipping the cell of another
\* fingerprint between them
C1_Witness ==
    \E t \in Scanners :
        /\ pc[t] = "returned" /\ ret[t].op = "find"
        /\ ret[t].rv = << Cell(HASH_A, ADDR_TWO), Cell(HASH_A, ADDR_MIN) >>
        /\ mem[BucketOf(HASH_A)][1] = Cell(HASH_B, ADDR_MIN)

\* the reference push_front: the source is the first match, else the first
\* empty cell, else the last index
RefPushFront(b, h, a) ==
    LET mv == Cell(h, a)
        s == IF Holds(b, mv) THEN FirstOf(b, mv)
             ELSE IF Holds(b, EmptyCell) THEN FirstOf(b, EmptyCell)
             ELSE c_cells_per_bucket - 1
    IN  RotateRight(b, 0, s, mv)

\* C2: push_front(h, a) rotates the cells from index 0 to the source right by
\* one, leaves the cells above the source and every other bucket unchanged,
\* puts (h, a) at index 0, and returns true exactly when (h, a) was there
C2_PushFrontReference ==
    [][\A t \in Scanners : Runs(t, "push_front") =>
          LET bi == call[t].hash % m_buckets
              mv == Cell(call[t].hash, call[t].addr)
          IN  /\ mem' = [mem EXCEPT ![bi] = RefPushFront(mem[bi], call[t].hash, call[t].addr)]
              /\ mem'[bi][0] = mv
              /\ ret'[t].found = Holds(mem[bi], mv)]_vars

\* the first call was a push_front of a new cell on a full bucket: the last
\* cell was evicted, the others moved up
C2_Witness ==
    \E t \in Scanners :
        LET old == file[BucketOf(HASH_A)]
            new == mem[BucketOf(HASH_A)]
        IN  /\ calls = 1 /\ pc[t] = "returned" /\ ret[t].op = "push_front"
            /\ ~ret[t].found
            /\ ~Holds(old, EmptyCell)
            /\ new[0] = Cell(HASH_B, ADDR_MIN) /\ ~Holds(old, new[0])
            /\ \A i \in CellIdx : i > 0 => new[i] = old[i - 1]
            /\ old[0] # old[1]

\* the five cases of push_random at position p: the cells after, whether the
\* extent is marked dirty, and the return value
RefPushRandom(b, h, a, p) ==
    LET mv == Cell(h, a)
        emptyUp == {i \in CellIdx : i >= p /\ b[i] = EmptyCell}
        emptyDown == {i \in CellIdx : i < p /\ b[i] = EmptyCell}
    IN  IF Holds(b, mv)
        THEN IF FirstOf(b, mv) > p
             THEN [cells |-> RotateRight(b, p, FirstOf(b, mv), mv), dirty |-> TRUE, rv |-> TRUE]
             ELSE [cells |-> b, dirty |-> FALSE, rv |-> TRUE]
        ELSE IF emptyUp # {}
             THEN [cells |-> [b EXCEPT ![KthIdx(emptyUp, 1)] = mv], dirty |-> TRUE, rv |-> FALSE]
             ELSE IF emptyDown # {}
                  THEN [cells |-> [b EXCEPT ![KthIdx(emptyDown, Cardinality(emptyDown))] = mv],
                        dirty |-> TRUE, rv |-> FALSE]
                  ELSE [cells |-> RotateRight(b, p, c_cells_per_bucket - 1, mv),
                        dirty |-> TRUE, rv |-> FALSE]

C5_ToxicFindTouchesNothing ==
    [][\A t \in Scanners :
          (pc[t] = "idle" /\ pc'[t] # "idle") =>
              /\ ~(call'[t].op = "find" /\ call'[t].hash \in m_toxic_hashes)
              /\ pc'[t] = "returned" =>
                    /\ ret'[t].op = "find" /\ ret'[t].hash \in m_toxic_hashes
                    /\ ret'[t].rv = << Cell(ret'[t].hash, ADDR_MIN + c_toxic_mask) >>
                    /\ ~ret'[t].threw
                    /\ UNCHANGED << mem, file, m_buckets_missing, m_buckets_dirty,
                                    m_bucket_mutex, m_extent_lock_set >>]_vars

\* a find of a toxic fingerprint returned while its extent was missing and
\* the other scanner held the extent's lock
C5_Witness ==
    \E t \in Scanners :
        /\ pc[t] = "returned" /\ ret[t].op = "find" /\ ret[t].hash = HASH_TOXIC
        /\ Len(ret[t].rv) = 1
        /\ get_extent_range(HASH_TOXIC) \in m_buckets_missing
        /\ m_extent_lock_set[get_extent_range(HASH_TOXIC)] \in Scanners \ {t}

\* ------------------------------------------------------------------------
\* erase followed by find (SpecOps)
\* ------------------------------------------------------------------------

\* a find of the fingerprint of the remembered erase returned a cell with the
\* erased address
FindReturnsErased(t) ==
    /\ pc[t] = "returned" /\ ret[t].op = "find"
    /\ erased # << >>
    /\ ret[t].hash = erased[1].cell.e_hash
    /\ \E i \in 1 .. Len(ret[t].rv) : ret[t].rv[i].e_addr = erased[1].cell.e_addr

\* C6 as stated: after erase(h, a) returns, with no other operation on the
\* bucket in between, a following find(h) returns no cell whose address is a
C6_EraseThenFind_AsStated == \A t \in Scanners : ~FindReturnsErased(t)

\* C6: for a non-toxic fingerprint h and a bucket that held at most one cell
\* equal to (h, a) when erase(h, a) ran, a following find(h), with no push on
\* the bucket in between, returns no cell whose address is a
C6_EraseThenFind ==
    \A t \in Scanners :
        FindReturnsErased(t) =>
            \/ ret[t].hash \in m_toxic_hashes
            \/ erased[1].copies > 1

\* erase removed the only copy of a cell and the find returned the other cell
\* of the fingerprint
C6_Witness ==
    \E t \in Scanners :
        /\ pc[t] = "returned" /\ ret[t].op = "find" /\ ret[t].hash = HASH_A
        /\ erased = << [cell |-> Cell(HASH_A, ADDR_MIN), copies |-> 1] >>
        /\ ret[t].rv = << Cell(HASH_A, ADDR_TWO) >>

\* ------------------------------------------------------------------------
\* Duplicates (SpecClean)
\* ------------------------------------------------------------------------

\* bucket b holds no two equal non-empty cells
NoDuplicates(b) ==
    \A i, j \in CellIdx : (i # j /\ b[i] # EmptyCell) => b[i] # b[j]

\* C7: from a store whose buckets hold no duplicates, under every
\* interleaving of find, erase, push_front and push_random calls of the
\* scanners, no bucket holds two equal non-empty cells
C7_NoDuplicates == \A bi \in Buckets : NoDuplicates(mem[bi])

\* both scanners pushed a cell the bucket already held, one with each push
C7_Witness ==
    /\ pc["s1"] = "returned" /\ ret["s1"].op = "push_front" /\ ret["s1"].found
    /\ pc["s2"] = "returned" /\ ret["s2"].op = "push_random" /\ ret["s2"].found
    /\ mem[BucketOf(HASH_A)][0] = Cell(HASH_A, ADDR_MIN)
    /\ \E i \in CellIdx : mem[BucketOf(HASH_A)][i] = Cell(HASH_B, ADDR_MIN)

\* ------------------------------------------------------------------------
\* Addresses of stored cells (SpecEmpty)
\* ------------------------------------------------------------------------

\* C8: from an all-empty store, after any erase, push_front and push_random
\* calls with any arguments, every cell is empty (fingerprint 0, address 0) or
\* has an address >= 0x1000
C8_ValidAddresses ==
    \A bi \in Buckets, i \in CellIdx :
        mem[bi][i] = EmptyCell \/ mem[bi][i].e_addr >= 4096

\* ------------------------------------------------------------------------
\* Writeback (Spec)
\* ------------------------------------------------------------------------

\* the file holds the cells of extent e
Written(e) == \A b \in ExtentBuckets(e) : file[b] = mem[b]

\* C9: every completed mutation of an extent is followed by the extent being
\* dirty or by a write of a copy taken after the mutation: a loaded extent
\* that is neither dirty nor in the snapshot the writeback thread is working
\* through has its cells in the file
C9_MutationDirtyOrWritten ==
    \A e \in Extents :
        (e \notin m_buckets_missing /\ e \notin m_buckets_dirty /\ e \notin dirty_extent_copy)
            => Written(e)

\* C10: no extent is both dirty and missing, and the writeback thread never
\* writes the cells of a missing extent
C10_DirtyNotMissing ==
    /\ m_buckets_dirty \cap m_buckets_missing = {}
    /\ pc["writeback"] = "write" => extent_copy[1].e_num \notin m_buckets_missing

\* ------------------------------------------------------------------------
\* Round trip through the file (Spec)
\* ------------------------------------------------------------------------

\* no extent is dirty and the writeback thread holds no snapshot
FlushComplete ==
    /\ m_buckets_dirty = {}
    /\ dirty_extent_copy = {}
    /\ pc["writeback"] \in {"flush", "wait"}

\* the fingerprints looked up
LookupHashes == {HASH_A, HASH_B, HASH_LAST}

\* what find(h) returns on a store constructed on the file as it is now
FindAfterReconstruction(h) == find_cell_rv(file[BucketOf(h)], h)

\* C11: after mutations and a complete flush (no dirty extent, no write in
\* progress) the file holds the cells of every loaded extent, so a store
\* constructed on the same file returns the same find result for every
\* fingerprint
C11_RoundTrip ==
    FlushComplete =>
        \A h \in LookupHashes :
            get_extent_range(h) \notin m_buckets_missing =>
                FindAfterReconstruction(h) = find_cell_rv(mem[BucketOf(h)], h)

\* ------------------------------------------------------------------------
\* Destruction (SpecDtor)
\* ------------------------------------------------------------------------

\* the extents still waiting to be written: dirty, or in the snapshot of the
\* writeback thread
Pending == m_buckets_dirty \cup dirty_extent_copy

\* C12: when the destructor releases the mapping, every extent that was dirty
\* or in the snapshot of the writeback thread has been written to the file
\* with its final cells
C12_DestructionFlushes ==
    pc["destructor"] = "released" =>
        \A e \in Pending \ m_buckets_missing : Written(e)

\* C13: destruction terminates: once the destructor is entered, in whatever
\* state, its final flush completes and the mapping is eventually released
C13_DestructionTerminates ==
    (pc["destructor"] = "flush") ~> (pc["destructor"] = "released")

\* ------------------------------------------------------------------------
\* I/O failures (Spec)
\* ------------------------------------------------------------------------

\* the writeback thread leaves the write of its copy and the file does not
\* hold the copy: the write failed
WriteFailed ==
    /\ pc["writeback"] = "write"
    /\ pc'["writeback"] # "write"
    /\ file' # pwrite_or_die(file, extent_copy[1])

\* fetcher t leaves the read of its extent and the extent was not read
ReadFailed(t) ==
    /\ pc[t] = "fetch_read"
    /\ pc'[t] # "fetch_read"
    /\ pc'[t] # "fetch_done"

\* C14: a failed write of a dirty extent leaves the extent in the dirty set
\* (so that a later cycle writes it again without a new mutation), and a
\* failed read of a missing extent leaves the extent in the missing set
C14_FailedIoIsRetried ==
    [][/\ WriteFailed => extent_copy[1].e_num \in m_buckets_dirty'
       /\ \A t \in Fetchers :
              ReadFailed(t) => extent_number(t) \in m_buckets_missing']_vars

\* C15: no operation of a scanner ends with an exception
C15_NoErrorAtApi ==
    \A t \in Scanners : ~ret[t].threw

\* ------------------------------------------------------------------------
\* push_front twice (SpecOps)
\* ------------------------------------------------------------------------

\* C16: push_front is idempotent on the bucket. Applying push_front(h, a) to
\* the cells a push_front(h, a) has just left gives the same cells and marks
\* nothing dirty; and a push_front(h, a) called on a bucket that already has
\* (h, a) at index 0, as the first call leaves it, changes no cell of the
\* table, leaves the dirty set as it is and returns true
C16_PushFrontIdempotent ==
    [][\A t \in Scanners : Runs(t, "push_front") =>
          LET bi == BucketOf(call[t].hash)
              mv == Cell(call[t].hash, call[t].addr)
              again == push_front_cells(mem'[bi], call[t].hash, call[t].addr)
          IN  /\ again.cells = mem'[bi]
              /\ ~again.dirty
              /\ again.found
              /\ mem[bi][0] = mv =>
                    /\ mem' = mem
                    /\ m_buckets_dirty' = m_buckets_dirty
                    /\ ret'[t].found]_vars

\* the second of two calls push_front(h, a) in a row has returned: the first
\* one put the cell, which the file did not hold, at the front of a full
\* bucket and marked the extent dirty; the second one found it there
C16_Witness ==
    \E t \in Scanners :
        LET bi == BucketOf(HASH_A)
            mv == Cell(HASH_A, ADDR_TWO)
        IN  /\ calls = 2 /\ pc[t] = "returned" /\ ret[t].op = "push_front"
            /\ ret[t].found
            /\ ~Holds(file[bi], mv) /\ ~Holds(file[bi], EmptyCell)
            /\ file[bi][0] # file[bi][1]
            /\ mem[bi] = RefPushFront(file[bi], HASH_A, ADDR_TWO)
            /\ m_buckets_dirty = {get_extent_range(HASH_A)}

\* ------------------------------------------------------------------------
\* The prefetcher's pass (Spec)
\* ------------------------------------------------------------------------

\* the prefetcher ends its scan of extent ext in this step
ScanEnds == pc["prefetch"] = "body" /\ pc'["prefetch"] # "body"

\* the prefetcher calls set_extent_dirty after its scan of extent ext
ScanMarksDirty == pc["prefetch"] = "set_dirty" /\ pc'["prefetch"] # "set_dirty"

\* bucket b breaks no cell invariant: no address between 1 and 0xfff, no two
\* equal cells with an address
CellsVerified(b) ==
    /\ \A i \in CellIdx : b[i].e_addr = 0 \/ b[i].e_addr >= 4096
    /\ \A i, j \in CellIdx : (i # j /\ b[i].e_addr # 0) => b[i] # b[j]

\* C17: when the scan of extent e has found a violation, the extent marked
\* dirty is e itself
C17_ScannedExtentMarkedDirty ==
    [][ScanMarksDirty => ext \in m_buckets_dirty']_vars

\* C18: when the prefetcher has scanned an extent, no cell of the extent
\* breaks the cell invariants: the cells with an address below 0x1000 and the
\* duplicate cells have been zeroed
C18_ScanClearsViolations ==
    [][ScanEnds => \A b \in ExtentBuckets(ext) : CellsVerified(mem'[b])]_vars

\* ------------------------------------------------------------------------
\* Concurrent fetches of an extent (SpecFetch)
\* ------------------------------------------------------------------------

\* fetcher t is inside fetch_missing_extent
InFetch(t) ==
    pc[t] \in {"fetch_check", "fetch_lock", "fetch_recheck", "fetch_read", "fetch_done"}

\* the read of fetcher t overwrites the cells of its extent in this step
Reads(t) == pc[t] = "fetch_read" /\ pc'[t] = "fetch_done"

\* fetch_missing_extent of fetcher t returns normally in this step
FetchReturns(t) == InFetch(t) /\ pc'[t] = "lock_bucket"

\* the cells of extent e in m
Region(m, e) == [b \in ExtentBuckets(e) |-> m[b]]

\* C19: under every interleaving of the fetches of the scanners and of the
\* prefetcher: a read overwrites the cells of an extent only while the extent
\* is missing, the reader holds the lock of the extent, no other fetcher is
\* reading or has read it, and no cell of the extent has been written (the
\* cells are as the constructor left them); the cells of a missing extent are
\* changed by nothing but the read; once a read has succeeded the extent
\* leaves the missing set before the lock is released, so no second read
\* succeeds; a fetcher whose second look finds the extent no longer missing
\* returns without reading; and every fetch that returns normally leaves the
\* extent absent from the missing set, which never grows
C19_FetchOncePerExtent ==
    [][/\ \A t \in Fetchers :
            LET e == extent_number(t)
            IN  /\ Reads(t) =>
                      /\ e \in m_buckets_missing
                      /\ m_extent_lock_set[e] = t
                      /\ \A b \in ExtentBuckets(e) : mem[b] = EmptyBucket
                      /\ \A u \in Fetchers \ {t} :
                            pc[u] \in {"fetch_read", "fetch_done"} => extent_number(u) # e
                      /\ Region(mem', e) = Region(file, e)
                /\ pc[t] = "fetch_done" =>
                      /\ e \in m_buckets_missing
                      /\ m_extent_lock_set[e] = t
                      /\ pc'[t] # "fetch_done" =>
                            (e \notin m_buckets_missing' /\ pc'[t] = "lock_bucket")
                /\ (pc[t] = "fetch_recheck" /\ e \notin m_buckets_missing /\ pc'[t] # pc[t]) =>
                      (pc'[t] = "lock_bucket" /\ mem' = mem)
                /\ FetchReturns(t) => e \notin m_buckets_missing'
       /\ \A e \in m_buckets_missing :
            Region(mem', e) # Region(mem, e) =>
                \E t \in Fetchers : Reads(t) /\ extent_number(t) = e
       /\ m_buckets_missing' \subseteq m_buckets_missing]_vars

\* both scanners and the prefetcher fetched the same extent at the same time:
\* one scanner read it from a file with cells in it, the other scanner took
\* the lock after it and is back from its second look without reading, and
\* the prefetcher is waiting for the lock
C19_Witness ==
    LET e == get_extent_range(HASH_A)
    IN  /\ e \notin m_buckets_missing
        /\ Region(mem, e) = Region(file, e)
        /\ \E b \in ExtentBuckets(e) : mem[b] # EmptyBucket
        /\ pc["s1"] = "body" /\ extent_number("s1") = e
        /\ pc["s2"] = "lock_bucket" /\ extent_number("s2") = e
        /\ m_extent_lock_set[e] = "prefetch" /\ extent_number("prefetch") = e
        /\ pc["prefetch"] = "fetch_recheck"

\* ------------------------------------------------------------------------
\* Liveness of writeback (SpecLive)
\* ------------------------------------------------------------------------

\* extent e is clean and the file holds its cells
Flushed(e) == e \notin Pending /\ Written(e)

\* C20: when the writeback thread is scheduled fairly and its writes succeed,
\* every extent put in the dirty set is eventually written with the cells its
\* mutations left: it leaves the dirty set and the snapshot and the file holds
\* its cells. This includes the extents marked dirty while the writeback
\* thread is looking at an empty dirty set or waiting on the condition
\* variable: no wake-up is lost
C20_DirtyEventuallyWritten ==
    \A e \in Extents : (e \in m_buckets_dirty) ~> Flushed(e)

\* two mutations of an extent have been written and the writeback thread is
\* waiting again: the file holds cells no initial file holds
C20_Witness ==
    LET bi == BucketOf(HASH_A)
    IN  /\ calls = 2
        /\ pc["writeback"] = "wait"
        /\ file \notin FileImages
        /\ file[bi] # EmptyBucket /\ ~Holds(file[bi], Cell(HASH_A, ADDR_MIN))
        /\ \A e \in Extents : e \notin m_buckets_missing => Flushed(e)
        /\ get_extent_range(HASH_A) \notin m_buckets_missing

\* ------------------------------------------------------------------------
\* The bucket mutex (SpecRace)
\* ------------------------------------------------------------------------

\* thread t takes a step
Acts(t) == pc'[t] # pc[t]

\* the writeback thread takes its copy of an extent in this step
Copies == pc["writeback"] = "copy" /\ pc'["writeback"] = "write"

\* C21: every write to a cell and every read of several cells of a bucket is
\* made by a thread holding m_bucket_mutex, the read from the file into the
\* cells of an extent and the writeback thread's copy of an extent included;
\* so the copy holds every bucket as it is between two operations, never as
\* it is in the middle of a shift
C21_BucketMutexHeld ==
    [][/\ mem' # mem => \E t \in Threads : m_bucket_mutex = t /\ Acts(t)
       /\ Copies =>
            /\ m_bucket_mutex = "writeback"
            /\ \A b \in ExtentBuckets(extent_number_wb) :
                  extent_copy'[1].data[b] = mem[b]]_vars

\* the writeback thread holds a copy of a bucket that the bucket never held
\* before or after an operation: some cells from before a push_front, some
\* from the middle of its shift
TornCopyHeld ==
    /\ pc["writeback"] = "write"
    /\ \E t \in Scanners :
          LET bi == BucketOf(call[t].hash)
              c == extent_copy[1].data
          IN  /\ pc[t] = "body" /\ call[t].op = "push_front"
              /\ bi \in DOMAIN c
              /\ c[bi] # mem[bi]
              /\ c[bi] # push_front_cells(mem[bi], call[t].hash, call[t].addr).cells

\* ------------------------------------------------------------------------
\* Lock order and freedom from deadlock (SpecLocks)
\* ------------------------------------------------------------------------

\* the scanners, the prefetcher and the writeback thread
Activities == Fetchers \cup {"writeback"}

\* the steps of activity t once its operation has been called
Step(t) ==
    \/ ExtentMutexLock(t)
    \/ IF t = "writeback" THEN Writeback
       ELSE IF t = "prefetch" THEN Fetch(t) \/ Prefetch
       ELSE Fetch(t) \/ Body(t)

\* activity t has something to do: a scanner inside an operation, the
\* prefetcher, the writeback thread unless it waits for an extent to be marked
NonIdle(t) ==
    IF t \in Scanners THEN pc[t] \notin {"idle", "returned"} ELSE pc[t] # "wait"

\* the owner of the lock activity t needs for its next step, if it has one
WaitsFor(t) ==
    IF pc[t] = "fetch_lock" THEN m_extent_lock_set[extent_number(t)]
    ELSE IF pc[t] = "lock_bucket" THEN m_bucket_mutex
    ELSE IF m_extent_mutex # t THEN m_extent_mutex
    ELSE NoThread

\* activity t can take a step, or the owner of the lock it waits for can, or
\* the owner of the lock that one waits for
\* activity t may mark an extent dirty in its next step
MayMarkDirty(t) ==
    IF t = "prefetch" THEN pc[t] = "set_dirty"
    ELSE /\ pc[t] = "body"
         /\ LET b == mem[BucketOf(call[t].hash)]
                h == call[t].hash
                a == call[t].addr
            IN  CASE call[t].op = "erase" -> erase_cells(b, h, a).dirty
                  [] call[t].op = "push_front" -> push_front_cells(b, h, a).dirty
                  [] call[t].op = "push_random" ->
                         \A pos \in CellIdx : push_random_cells(b, h, a, pos).dirty
                  [] OTHER -> FALSE

\* Step(t) is enabled: the lock the next step of t takes is free, and a
\* thread waiting on the condition variable has no step of its own
CanStep(t) ==
    /\ pc[t] \notin {"idle", "returned", "wait"}
    /\ pc[t] = "fetch_lock" => m_extent_lock_set[extent_number(t)] = NoThread
    /\ pc[t] = "lock_bucket" => m_bucket_mutex = NoThread
    /\ (pc[t] \in {"fetch_check", "fetch_recheck", "fetch_done", "flush"} \/ MayMarkDirty(t))
           => m_extent_mutex \in {NoThread, t}

RECURSIVE Unblocked(_, _)
Unblocked(t, n) ==
    \/ CanStep(t)
    \/ /\ n > 0
       /\ WaitsFor(t) \in Activities \ {t}
       /\ Unblocked(WaitsFor(t), n - 1)

\* a lock is taken by t in this step
TakesExtentLock(t) ==
    \E e \in Extents : m_extent_lock_set'[e] = t /\ m_extent_lock_set[e] # t

TakesBucketMutex(t) == m_bucket_mutex' = t /\ m_bucket_mutex # t

\* the lock order: no activity takes a per-extent lock or m_bucket_mutex
\* while it holds m_extent_mutex, none takes a per-extent lock while it holds
\* m_bucket_mutex, and the owner of m_extent_mutex is never waiting for
\* another lock
LockOrder ==
    \A t \in Activities :
        /\ TakesExtentLock(t) => (m_extent_mutex # t /\ m_bucket_mutex # t)
        /\ TakesBucketMutex(t) => m_extent_mutex # t
        /\ m_extent_mutex = t => pc[t] \notin {"fetch_lock", "lock_bucket"}

\* no deadlock: every activity that has something to do can take a
\* step or waits for a lock whose owner can, through at most two owners
NoDeadlock == \A t \in Activities : NonIdle(t) => Unblocked(t, 2)

\* C22: the three locks are taken in a consistent order and the scanners,
\* the writeback thread and the prefetcher never deadlock
C22_LockOrderNoDeadlock == [][LockOrder /\ NoDeadlock]_vars

\* a chain of two owners: one scanner waits for m_bucket_mutex, held by the
\* other scanner, whose set_extent_dirty waits for m_extent_mutex, held by
\* the prefetcher inside fetch_missing_extent with a per-extent lock
C22_Witness ==
    /\ pc["s1"] = "lock_bucket" /\ m_bucket_mutex = "s2"
    /\ pc["s2"] = "body" /\ call["s2"].op = "push_front"
    /\ ~CanStep("s2")
    /\ m_extent_mutex = "prefetch" /\ pc["prefetch"] = "fetch_recheck"
    /\ m_extent_lock_set[extent_number("prefetch")] = "prefetch"
    /\ pc["writeback"] = "flush"

====
